---- MODULE Spec2Model ----
(***************************************************************************)
(* slackcli: the command actions of `conversations list`, `conversations  *)
(* unread`, `conversations read` and `search messages`, as one state      *)
(* machine per invocation.  Every `await` of an action is two steps: the  *)
(* call is issued (an entry of `calls` with status "pending") and then it *)
(* returns or throws.  The Slack client, the workspace store and the      *)
(* clock are the environment: their answers are drawn with \E.            *)
(***************************************************************************)
EXTENDS Integers, Sequences, FiniteSets, TLC

\* ------------------------------------------------------------------ bounds
\* Most channels in one conversations.list page.
MaxChannels == 2
\* Most messages in one history / replies page, most matches of a search.
MaxMessages == 2
\* Longest --count value of `search messages`, in characters.
MaxCountLen == 3
\* Largest amount N of a relative date "N unit ago" (besides 10 and 12).
MaxAmount == 2
\* Most calls a retrying variant of the user lookup may have issued.
MaxRetries == 3
\* Most store mutations (login, set-default, remove, logout) that succeed.
MaxOps == 4

\* ------------------------------------------------------- absent JS values
\* An absent (undefined) string field, option or cursor.
Undefined == "undefined"
\* An absent unread_count_display.
NoCount == -1
\* An absent thread_ts (real timestamps are positive).
NoTs == 0

VARIABLES
  cmd,                  \* the sub-command of this invocation
  opts,                 \* commander's parsed options
  now,                  \* what Date.now() reads
  workspace,            \* auth_type of the resolved workspace
  pc,                   \* position inside the action callback
  calls,                \* every client call issued so far, in order
  response,             \* the primary call's response as received
  infoResponses,        \* what getConversationInfo answered, per call
  channels,             \* `channels` / `allChannels`
  channelsWithUnreads,  \* `channelsWithUnreads`
  idx,                  \* position of the for..of loop over the channels
  oldest,               \* `oldest` of the read action
  latest,               \* `latest` of the read action
  count,                \* `count` of the search action
  messages,             \* `messages` / `matches`
  userIds,              \* `userIds` (a Set: insertion order, no repeats)
  users,                \* keys of the `users` Map
  parents,              \* `parents` Map: root ts -> message
  workspaceUrl,         \* `workspaceUrl`
  out,                  \* what console.log printed as the result
  exitCode,             \* the process's exit status (Undefined: running)
  errMsg,               \* the err.message handed to error()
  stderr,               \* what error() printed: message and hint
  stages,               \* the stages of the pipeline, in the order begun
  store,                \* the stored workspace configs, in list() order
  defaultId,            \* the store's default pointer (Undefined: unset)
  authLog,              \* the store mutations that succeeded, in order
  authResult            \* how the last `auth` command or lookup ended

\* The credential store and what the auth commands did to it.
storeState == <<store, defaultId, authLog, authResult>>
\* What a conversations or search invocation never changes.
env == <<cmd, opts, now, storeState>>
\* The locals of the unread loop.
listState == <<infoResponses, channels, channelsWithUnreads, idx>>
\* The locals of the read and search actions.
readState == <<oldest, latest, count, messages, parents, workspaceUrl>>
\* The locals of user resolution.
userState == <<userIds, users>>
\* What the process leaves behind.
endState == <<out, exitCode, errMsg, stderr>>

vars == <<env, workspace, pc, calls, response, listState, readState,
          userState, endState, stages>>

\* --------------------------------------------------------------- helpers
Range(s) == {s[i] : i \in 1..Len(s)}

\* JS truthiness of an optional string.
Truthy(s) == s # Undefined /\ s # ""

\* Array.prototype.push in place of Set.prototype.add: duplicates are kept.
SetAddDup(s, x) == Append(s, x)

\* Set.prototype.add on a Set kept as its insertion-ordered sequence.
SetAdd(s, x) == IF x \in Range(s) THEN s ELSE Append(s, x)

\* ------------------------------------------------------------ environment
\* Error codes a client call may throw as err.message.
ApiErrors == {"ratelimited", "channel_not_found"}

UserIdSet == {"U1", "U2"}

\* Opaque pagination cursors of a response (Undefined: last page).
Cursors == {Undefined, "dGVhbTpDMDYx"}

\* What conversations.list says of one channel, besides its id.
ChannelKinds ==
  {k \in [is_im : BOOLEAN, user : UserIdSet \cup {Undefined}] :
     k.is_im \/ k.user # "U2"}

\* The pages listConversations may return: ids are distinct, the unread
\* fields are not part of conversations.list.
ChannelPages ==
  UNION {{[i \in 1..n |-> [id |-> i, is_im |-> k[i].is_im, user |-> k[i].user,
                           unread_count_display |-> NoCount,
                           last_read |-> Undefined]] :
            k \in [1..n -> ChannelKinds]} : n \in 0..MaxChannels}

\* The channel object of a successful conversations.info.
InfoChannels ==
  [unread_count_display : {NoCount, 0, 2}, last_read : {"1700000000.000100"}]

\* Message timestamps of the channel being read (unique per channel).
TsSet == {1, 2, 3}

\* The messages a page may hold: a root has thread_ts = ts, a reply carries
\* the ts of its (older) root, an unthreaded message has no thread_ts.
Messages ==
  {m \in [ts : TsSet, thread_ts : TsSet \cup {NoTs},
          user : UserIdSet \cup {Undefined}] : m.thread_ts <= m.ts}

\* The pages history / replies may return, in any order.
MessagePages ==
  UNION {{p \in [1..n -> Messages] :
            \A i, j \in 1..n : i # j => p[i].ts # p[j].ts} :
         n \in 0..MaxMessages}

\* The matches search.messages may return.
MatchPages == {p \in MessagePages : \A i \in 1..Len(p) : p[i].thread_ts = NoTs}

\* The message a Map lookup misses.
NoMessage == [ts |-> NoTs, thread_ts |-> NoTs, user |-> Undefined]

\* workspace_url of a browser-mode workspace; url of auth.test.
StoredUrl == "https://stored.slack.com"
AuthTestUrl == "https://team.slack.com/"

\* ------------------------------------------------------------------ errors
\* The Slack error codes of the model: the nine of formatSlackError's table
\* and two it does not list.
SlackErrors ==
  {"invalid_auth", "not_in_channel", "channel_not_found", "ratelimited",
   "missing_scope", "token_revoked", "account_inactive", "invalid_cursor",
   "no_permission", "fatal_error", "not_authed"}

\* A string as the characters the regular expression reads, for the
\* messages of the model.
Characters(message) ==
  CASE message = "invalid_auth" ->
      <<"i", "n", "v", "a", "l", "i", "d", "_", "a", "u", "t", "h">>
    [] message = "not_in_channel" ->
      <<"n", "o", "t", "_", "i", "n", "_", "c", "h", "a", "n", "n",
        "e", "l">>
    [] message = "channel_not_found" ->
      <<"c", "h", "a", "n", "n", "e", "l", "_", "n", "o", "t", "_",
        "f", "o", "u", "n", "d">>
    [] message = "ratelimited" ->
      <<"r", "a", "t", "e", "l", "i", "m", "i", "t", "e", "d">>
    [] message = "missing_scope" ->
      <<"m", "i", "s", "s", "i", "n", "g", "_", "s", "c", "o", "p",
        "e">>
    [] message = "token_revoked" ->
      <<"t", "o", "k", "e", "n", "_", "r", "e", "v", "o", "k", "e",
        "d">>
    [] message = "account_inactive" ->
      <<"a", "c", "c", "o", "u", "n", "t", "_", "i", "n", "a", "c",
        "t", "i", "v", "e">>
    [] message = "invalid_cursor" ->
      <<"i", "n", "v", "a", "l", "i", "d", "_", "c", "u", "r", "s",
        "o", "r">>
    [] message = "no_permission" ->
      <<"n", "o", "_", "p", "e", "r", "m", "i", "s", "s", "i", "o",
        "n">>
    [] message = "fatal_error" ->
      <<"f", "a", "t", "a", "l", "_", "e", "r", "r", "o", "r">>
    [] message = "not_authed" ->
      <<"n", "o", "t", "_", "a", "u", "t", "h", "e", "d">>
    [] message = "No authenticated workspaces found" ->
      <<"N", "o", " ", "a", "u", "t", "h", "e", "n", "t", "i", "c",
        "a", "t", "e", "d", " ", "w", "o", "r", "k", "s", "p", "a",
        "c", "e", "s", " ", "f", "o", "u", "n", "d">>
    [] message = "Invalid date format" ->
      <<"I", "n", "v", "a", "l", "i", "d", " ", "d", "a", "t", "e",
        " ", "f", "o", "r", "m", "a", "t">>
    [] message = "Count must be between 1 and 100" ->
      <<"C", "o", "u", "n", "t", " ", "m", "u", "s", "t", " ", "b",
        "e", " ", "b", "e", "t", "w", "e", "e", "n", " ", "1", " ",
        "a", "n", "d", " ", "1", "0", "0">>
    [] message = "Sort must be either \"timestamp\" or \"score\"" ->
      <<"S", "o", "r", "t", " ", "m", "u", "s", "t", " ", "b", "e",
        " ", "e", "i", "t", "h", "e", "r", " ", "\"", "t", "i", "m",
        "e", "s", "t", "a", "m", "p", "\"", " ", "o", "r", " ", "\"",
        "s", "c", "o", "r", "e", "\"">>

\* The character class [a-z_].
CodeChars ==
  {"a", "b", "c", "d", "e", "f", "g", "h", "i", "j", "k", "l", "m", "n", "o",
   "p", "q", "r", "s", "t", "u", "v", "w", "x", "y", "z", "_"}

\* `message.match(/^([a-z_]+)$/)`
SlackErrorMatch(message) ==
  LET cs == Characters(message)
  IN Len(cs) > 0 /\ \A i \in 1..Len(cs) : cs[i] \in CodeChars

\* `errorMap` of formatSlackError.
errorMap ==
  "invalid_auth" :>
    [message |-> "Your session has expired or authentication is invalid.",
     hint |->
       "Re-authenticate with:\n  slack auth login-browser"] @@
  "not_in_channel" :>
    [message |-> "You're not a member of this channel.",
     hint |->
       "Join the channel first in Slack, then try again."] @@
  "channel_not_found" :>
    [message |-> "Channel not found.",
     hint |->
       "Verify the channel ID with: slack conversations list"] @@
  "ratelimited" :>
    [message |-> "Rate limited by Slack.",
     hint |->
       "Wait 60 seconds and try again."] @@
  "missing_scope" :>
    [message |-> "Missing required permissions.",
     hint |->
       "Check your authentication scopes and re-authenticate if needed."] @@
  "token_revoked" :>
    [message |-> "Your authentication token has been revoked.",
     hint |->
       "Re-authenticate with: slack auth login-browser"] @@
  "account_inactive" :>
    [message |-> "Your Slack account is inactive.",
     hint |->
       "Contact your workspace administrator."] @@
  "invalid_cursor" :>
    [message |-> "Invalid pagination cursor.",
     hint |->
       "The cursor may have expired. Start a new query without --cursor."] @@
  "no_permission" :>
    [message |-> "You don't have permission to access this resource.",
     hint |->
       "Contact your workspace administrator for access."]

\* `return errorMap[errorCode] || { message: errorCode }`
formatSlackError(errorCode) ==
  IF errorCode \in DOMAIN errorMap
  THEN errorMap[errorCode]
  ELSE [message |-> errorCode, hint |-> Undefined]

\* An error() that falls back to the caller's hint when the code has none.
errorKeepsHint(message, hint) ==
  IF SlackErrorMatch(message)
  THEN LET formatted == formatSlackError(message)
       IN [message |-> formatted.message,
           hint |-> IF Truthy(formatted.hint) THEN formatted.hint ELSE hint]
  ELSE [message |-> message, hint |-> hint]

\* error(message, hint): what it writes after "Error:" and, dimmed, below;
\* a hint of Undefined is not printed.
error(message, hint) ==
  IF SlackErrorMatch(message)
  THEN LET formatted == formatSlackError(message)
       IN [message |-> formatted.message,
           hint |-> IF Truthy(formatted.hint) THEN formatted.hint
                    ELSE Undefined]
  ELSE [message |-> message,
        hint |-> IF Truthy(hint) THEN hint ELSE Undefined]

\* Nothing was printed by error().
NoError == [message |-> Undefined, hint |-> Undefined]

\* -------------------------------------------------------- credential store
\* Workspace ids that may be stored, and one that never is.
WorkspaceIds == {"T1", "T2"}
UnknownId == "T9"

\* The name a workspace is stored under.
WorkspaceName(id) == IF id = "T1" THEN "acme" ELSE "beta"

\* WorkspaceConfig: the secrets play no part in the lookups.
Configs ==
  {[workspace_id |-> id, workspace_name |-> WorkspaceName(id),
    auth_type |-> t] : id \in WorkspaceIds, t \in {"standard", "browser"}}

\* The ids of the stored configs.
StoreIds(st) == {st[i].workspace_id : i \in 1..Len(st)}

\* add(config) that appends whatever is stored.
StoreAddAppend(st, c) == Append(st, c)

\* add(config): the config of an id already stored is replaced in place, a
\* new one is appended.
StoreAdd(st, c) ==
  IF c.workspace_id \in StoreIds(st)
  THEN [i \in 1..Len(st) |->
          IF st[i].workspace_id = c.workspace_id THEN c ELSE st[i]]
  ELSE Append(st, c)

\* remove(id) that puts another stored workspace in place of a removed
\* default.
DefaultAfterRemovePromoting(st, def, id) ==
  IF def # id THEN def
  ELSE IF \E i \in 1..Len(st) : st[i].workspace_id # id
  THEN (CHOOSE c \in Range(st) : c.workspace_id # id).workspace_id
  ELSE Undefined

\* remove(id): the pointer is cleared when id is the default, nothing is
\* promoted.
DefaultAfterRemove(st, def, id) == IF def = id THEN Undefined ELSE def

\* remove(id): the config of id leaves the store.
StoreRemove(st, id) == SelectSeq(st, LAMBDA c : c.workspace_id # id)

\* The lookup that answers any identifier with the first stored config.
StoreGetAny(st, def, x) ==
  IF st = <<>> THEN [found |-> FALSE, config |-> Undefined]
  ELSE [found |-> TRUE, config |-> st[1]]

\* get(idOrName?): the config whose id or name is x, the default when x is
\* not given; a miss is WorkspaceNotFound.
StoreGet(st, def, x) ==
  LET key == IF x = Undefined THEN def ELSE x
      hits == {i \in 1..Len(st) :
                 st[i].workspace_id = key
                   \/ (x # Undefined /\ st[i].workspace_name = key)}
  IN IF hits = {} THEN [found |-> FALSE, config |-> Undefined]
     ELSE [found |-> TRUE,
           config |-> st[CHOOSE i \in hits : \A j \in hits : i <= j]]

\* Stores a conversations or search invocation may find on disk.
StoreSamples ==
  {[store |-> <<>>, defaultId |-> Undefined]}
  \cup {[store |-> <<c>>, defaultId |-> c.workspace_id] :
          c \in {k \in Configs : k.workspace_id = "T1"}}

\* No auth command has run yet.
NoResult == [op |-> Undefined, arg |-> Undefined, error |-> Undefined,
             exitCode |-> Undefined, value |-> Undefined]

\* ------------------------------------------------------- parsing numbers
\* Strings are sequences of lexemes: one-character strings for digits,
\* signs and white space, whole words for letters.
DigitChars == <<"0", "1", "2", "3", "4", "5", "6", "7", "8", "9">>
Digits == Range(DigitChars)
Spaces == {" ", "\t"}

DigitValue(c) == (CHOOSE i \in 1..10 : DigitChars[i] = c) - 1

RECURSIVE DigitsValue(_)
DigitsValue(ds) ==
  IF ds = <<>> THEN 0
  ELSE 10 * DigitsValue(SubSeq(ds, 1, Len(ds) - 1)) + DigitValue(ds[Len(ds)])

RECURSIVE RunLen(_, _, _)
\* How many lexemes from position i on lie in `class` (a regex `class*`).
RunLen(str, i, class) ==
  IF i <= Len(str) /\ str[i] \in class THEN 1 + RunLen(str, i + 1, class)
  ELSE 0

NaN == [nan |-> TRUE, value |-> 0]

\* `parseInt(str, 10)`: leading white space, a sign, the longest digit
\* prefix; NaN when there is no digit.
ParseInt(str) ==
  LET lead == RunLen(str, 1, Spaces)
      signed == lead < Len(str) /\ str[lead + 1] \in {"-", "+"}
      from == IF signed THEN lead + 2 ELSE lead + 1
      n == RunLen(str, from, Digits)
      magnitude == DigitsValue(SubSeq(str, from, from + n - 1))
  IN IF n = 0 THEN NaN
     ELSE [nan |-> FALSE,
           value |-> IF signed /\ str[lead + 1] = "-" THEN 0 - magnitude
                     ELSE magnitude]

\* --------------------------------------------------------------- parseDate
\* String.prototype.toLowerCase on the words of the model.
ToLowerCase(w) ==
  CASE w \in {"Day", "DAY"} -> "day"
    [] w \in {"Days", "DAYS"} -> "days"
    [] w \in {"Week", "WEEK"} -> "week"
    [] w \in {"Weeks", "WEEKS"} -> "weeks"
    [] w \in {"Hour", "HOUR"} -> "hour"
    [] w \in {"Hours", "HOURS"} -> "hours"
    [] w \in {"Ago", "AGO"} -> "ago"
    [] OTHER -> w

\* The alternation of the regular expression.
UnitWords == {"day", "days", "week", "weeks", "hour", "hours"}

\* `new Date(dateStr).getTime()` for the calendar dates of the model; any
\* other string of the model is an Invalid Date (NaN).
DateGetTime(dateStr) ==
  IF dateStr = <<"1970-01-20">> THEN [nan |-> FALSE, value |-> 1641600000]
  ELSE IF dateStr = <<"1970-01-02T00:00:00.500Z">>
  THEN [nan |-> FALSE, value |-> 86400500]
  ELSE NaN

\* A slip in the day branch: one factor of 60 is missing.
UnitMsShortDay(amount, unit) ==
  IF unit \in {"hour", "hours"} THEN amount * 60 * 60 * 1000
  ELSE IF unit \in {"day", "days"} THEN amount * 24 * 60 * 1000
  ELSE IF unit \in {"week", "weeks"} THEN amount * 7 * 24 * 60 * 60 * 1000
  ELSE 0

\* The milliseconds of `amount` units.
UnitMs(amount, unit) ==
  IF unit \in {"hour", "hours"} THEN amount * 60 * 60 * 1000
  ELSE IF unit \in {"day", "days"} THEN amount * 24 * 60 * 60 * 1000
  ELSE IF unit \in {"week", "weeks"} THEN amount * 7 * 24 * 60 * 60 * 1000
  ELSE 0

\* `Math.floor(ms / 1000)`
FloorSeconds(ms) == ms \div 1000

\* parseDate without its isNaN test: an unparseable date comes back as a
\* timestamp.
parseDateUnchecked(dateStr, clock) ==
  LET d == RunLen(dateStr, 1, Digits)
      w1 == RunLen(dateStr, d + 1, Spaces)
      u == d + w1 + 1
      relative == d >= 1 /\ w1 >= 1 /\ u <= Len(dateStr)
                    /\ ToLowerCase(dateStr[u]) \in UnitWords
                    /\ u + RunLen(dateStr, u + 1, Spaces) + 1 = Len(dateStr)
                    /\ RunLen(dateStr, u + 1, Spaces) >= 1
                    /\ ToLowerCase(dateStr[Len(dateStr)]) = "ago"
  IN IF relative
     THEN [ok |-> TRUE,
           value |-> FloorSeconds(clock - UnitMs(
                       ParseInt(SubSeq(dateStr, 1, d)).value,
                       ToLowerCase(dateStr[u])))]
     ELSE [ok |-> TRUE, value |-> FloorSeconds(DateGetTime(dateStr).value)]

\* parseDate(dateStr) at clock reading `clock`: [ok, value], ok = FALSE
\* for the thrown "Invalid date format" error.
parseDate(dateStr, clock) ==
  LET d == RunLen(dateStr, 1, Digits)
      w1 == RunLen(dateStr, d + 1, Spaces)
      u == d + w1 + 1
      w2 == RunLen(dateStr, u + 1, Spaces)
      a == u + w2 + 1
      relativeMatch ==
        /\ d >= 1
        /\ w1 >= 1
        /\ u <= Len(dateStr)
        /\ ToLowerCase(dateStr[u]) \in UnitWords
        /\ w2 >= 1
        /\ a = Len(dateStr)
        /\ ToLowerCase(dateStr[a]) = "ago"
      amount == ParseInt(SubSeq(dateStr, 1, d)).value
      unit == ToLowerCase(dateStr[u])
      date == DateGetTime(dateStr)
  IN IF relativeMatch
     THEN [ok |-> TRUE, value |-> FloorSeconds(clock - UnitMs(amount, unit))]
     ELSE IF date.nan THEN [ok |-> FALSE, value |-> 0]
     ELSE [ok |-> TRUE, value |-> FloorSeconds(date.value)]

\* ---------------------------------------------------------------- options
\* An option that was not given (an empty value is as falsy).
NoOption == <<>>

DefaultOpts ==
  [unreadOnly |-> FALSE, showUnreads |-> FALSE, threadTs |-> FALSE,
   excludeReplies |-> FALSE, json |-> FALSE, since |-> NoOption,
   until |-> NoOption, count |-> <<"2", "0">>, sort |-> "score"]

ListOpts ==
  {[DefaultOpts EXCEPT !.unreadOnly = u, !.showUnreads = s] :
     u \in BOOLEAN, s \in BOOLEAN}

\* --since / --until values of the read command.
DateSamples ==
  {NoOption, <<"2", " ", "days", " ", "ago">>, <<"not-a-date">>}

\* The read options: no date filter, both filters, or one that is refused.
ReadOpts ==
  {o \in {[DefaultOpts EXCEPT !.threadTs = t, !.excludeReplies = x,
                              !.json = j, !.since = s, !.until = u] :
            t \in BOOLEAN, x \in BOOLEAN, j \in BOOLEAN,
            s \in DateSamples, u \in DateSamples} :
     \/ o.since = NoOption /\ o.until = NoOption
     \/ o.since = <<"not-a-date">> /\ o.until = NoOption
     \/ o.since = <<"2", " ", "days", " ", "ago">> /\ o.until # NoOption}

\* --count values: every string of at most MaxCountLen of these characters.
CountChars == {"0", "1", "-", "a"}
CountStrings == UNION {[1..n -> CountChars] : n \in 1..MaxCountLen}

\* --sort values (the empty string is `--sort ""`).
SortValues == {"timestamp", "score", "bogus", ""}

SearchOpts ==
  {[DefaultOpts EXCEPT !.count = c, !.sort = s] :
     c \in CountStrings, s \in SortValues}

NoOutput ==
  [emitted |-> FALSE, format |-> Undefined, items |-> <<>>, parents |-> <<>>,
   users |-> {}, cursor |-> Undefined, message_count |-> 0]

\* A date filter that is not passed to the API.
NoTime == [set |-> FALSE, value |-> 0]

\* Date.now() of the invocation, in milliseconds.
StartTime == 1900000123

InitWith(commands, readOpts, clocks) ==
  /\ cmd \in commands
  /\ opts \in (CASE cmd = "list" -> ListOpts
                 [] cmd = "read" -> readOpts
                 [] cmd = "search" -> SearchOpts
                 [] OTHER -> {DefaultOpts})
  /\ now \in clocks
  /\ pc = "client"
  /\ workspace = Undefined
  /\ calls = <<>>
  /\ response = [items |-> <<>>, next_cursor |-> Undefined]
  /\ infoResponses = <<>>
  /\ channels = <<>>
  /\ channelsWithUnreads = <<>>
  /\ idx = 1
  /\ oldest = NoTime
  /\ latest = NoTime
  /\ count = NaN
  /\ messages = <<>>
  /\ userIds = <<>>
  /\ users = {}
  /\ parents = <<>>
  /\ workspaceUrl = Undefined
  /\ out = NoOutput
  /\ exitCode = Undefined
  /\ errMsg = Undefined
  /\ stderr = NoError
  /\ stages = <<>>
  /\ \E found \in StoreSamples :
       store = found.store /\ defaultId = found.defaultId
  /\ authLog = <<>>
  /\ authResult = NoResult

Init == InitWith({"list", "unread", "read", "search"}, ReadOpts, {StartTime})

\* ------------------------------------------------- date expressions to parse
\* The decimal numeral of n < 100, as JS prints it.
Decimal(n) ==
  IF n < 10 THEN <<DigitChars[n + 1]>>
  ELSE <<DigitChars[(n \div 10) + 1], DigitChars[(n % 10) + 1]>>

\* The words tried as units, in several spellings, and two that are none.
UnitSpellings ==
  {"day", "days", "Days", "DAY", "week", "weeks", "WEEKS", "hour", "hours",
   "Hour", "month", "minutes"}

\* "<n><ws1><unit><ws2><ago>" as lexemes; lead is what precedes the number.
RelativeExpr(lead, n, ws1, unit, ws2, ago) ==
  lead \o Decimal(n) \o ws1 \o <<unit>> \o ws2 \o ago

WhiteSpaces == {<<" ">>, <<" ", "\t">>}

\* Well-formed relative expressions: a numeral (or one with a leading
\* zero), white space, a unit in any case, white space, "ago" in any case.
RelativeCases ==
  [lead : {<<>>, <<"0">>}, n : 0..MaxAmount, ws1 : WhiteSpaces,
   unit : {u \in UnitSpellings : ToLowerCase(u) \in UnitWords},
   ago : {"ago", "AGO"}]
  \cup [lead : {<<>>}, n : {10, 12}, ws1 : {<<" ">>},
        unit : {"hours", "day"}, ago : {"ago"}]

ExprOf(c) == RelativeExpr(c.lead, c.n, c.ws1, c.unit, <<" ">>, <<c.ago>>)

RelativeDates == {ExprOf(c) : c \in RelativeCases}

\* Expressions the relative grammar must refuse.
MalformedDates ==
  {RelativeExpr(<<>>, n, <<>>, "days", <<" ">>, <<"ago">>) : n \in 0..MaxAmount}
  \cup {RelativeExpr(<<>>, n, <<" ">>, "days", <<>>, <<"ago">>) : n \in 0..MaxAmount}
  \cup {RelativeExpr(<<>>, n, <<" ">>, "days", <<" ">>, <<>>) : n \in 0..MaxAmount}
  \cup {RelativeExpr(<<" ">>, n, <<" ">>, "days", <<" ">>, <<"ago">>) : n \in 0..MaxAmount}
  \cup {RelativeExpr(<<"-">>, n, <<" ">>, "days", <<" ">>, <<"ago">>) : n \in 0..MaxAmount}
  \cup {RelativeExpr(<<>>, n, <<" ">>, unit, <<" ">>, <<"ago">>) :
          n \in 0..MaxAmount, unit \in {"month", "minutes"}}
  \cup {RelativeExpr(<<>>, n, <<" ">>, "weeks", <<" ">>, <<"ago", " ">>) :
          n \in 0..MaxAmount}
  \cup {<<"days", " ", "ago">>, <<"not-a-date">>}

AbsoluteDates == {<<"1970-01-20">>, <<"1970-01-02T00:00:00.500Z">>}

DateStrings == RelativeDates \cup MalformedDates \cup AbsoluteDates

\* Clock readings: mid-second, before the first hour, on a whole second.
Clocks == {StartTime, 999, 1814400000}

\* `conversations read --since <expr>` for every expression and clock.
DateOpts ==
  {[DefaultOpts EXCEPT !.since = e] : e \in DateStrings}
  \cup {[DefaultOpts EXCEPT !.since = s, !.until = u] :
          s \in {NoOption, <<"1970-01-20">>},
          u \in MalformedDates \cup AbsoluteDates}

InitDate == InitWith({"read"}, DateOpts, Clocks)

\* ------------------------------------------------------ calls and failure
\* A stage of the pipeline begins.
Begin(stage) == stages' = Append(stages, stage)

\* An awaited client call is issued.
Issue(api, arg) ==
  calls' = Append(calls, [api |-> api, arg |-> arg, status |-> "pending"])

\* The pending call is over: "ok" when the client returned its response (a
\* returned response carries `ok` and its payload), else the error code the
\* client threw as err.message.
Settle(status) ==
  calls' = [calls EXCEPT ![Len(calls)].status = status]

\* The hint the action's catch block hands to error(): list and unread pass
\* one, read and search pass none.
CallerHint ==
  IF cmd \in {"list", "unread"}
  THEN "Run \"slackcli auth list\" to check your authentication."
  ELSE Undefined

\* spinner.fail(...); error(msg, hint); process.exit(1): nothing more is
\* printed.
Fatal(msg) ==
  /\ pc' = "failed"
  /\ exitCode' = "1"
  /\ errMsg' = msg
  /\ stderr' = error(msg, CallerHint)
  /\ UNCHANGED out

\* An awaited client call threw: the catch block of the action.
Throw(e) == Settle(e) /\ Fatal(e)

\* ------------------------------------------------- getAuthenticatedClient
\* `await getAuthenticatedClient(options.workspace)` (no --workspace given):
\* the client of the default workspace, or a throw when the lookup misses.
GetClient ==
  /\ pc = "client"
  /\ LET got == StoreGet(store, defaultId, Undefined)
     IN IF got.found
        THEN /\ workspace' = got.config.auth_type
             /\ pc' = (CASE cmd = "read" -> "dates"
                         [] cmd = "search" -> "validate"
                         [] OTHER -> "fetch")
             /\ UNCHANGED endState
        ELSE /\ Fatal("No authenticated workspaces found")
             /\ UNCHANGED workspace
  /\ UNCHANGED <<env, calls, response, listState, readState, userState>>
  /\ UNCHANGED stages

\* -------------------------------------------------- list / unread: stage 1
\* `await client.listConversations({...})` is issued.
ListFetch ==
  /\ cmd \in {"list", "unread"}
  /\ pc = "fetch"
  /\ Issue("listConversations", <<>>)
  /\ pc' = "fetch_wait"
  /\ UNCHANGED <<env, workspace, response, listState, readState, userState,
                 endState>>
  /\ Begin("Fetch")

\* Whether the action runs the getConversationInfo loop.
NeedsUnreads == cmd = "unread" \/ opts.unreadOnly \/ opts.showUnreads

\* Whether the loop filters (unread, list --unread-only) or only annotates.
FiltersUnreads == cmd = "unread" \/ opts.unreadOnly

\* listConversations returned: `channels = response.channels || []`.
ListFetched ==
  /\ cmd \in {"list", "unread"}
  /\ pc = "fetch_wait"
  /\ \E page \in ChannelPages, c \in Cursors :
       /\ response' = [items |-> page, next_cursor |-> c]
       /\ channels' = page
  /\ Settle("ok")
  /\ channelsWithUnreads' = <<>>
  /\ idx' = 1
  /\ pc' = IF NeedsUnreads THEN "enrich" ELSE "users"
  /\ UNCHANGED <<env, workspace, infoResponses, readState, userState,
                 endState>>
  /\ IF NeedsUnreads THEN Begin("EnrichUnread") ELSE UNCHANGED stages

\* A catch block that goes on with an empty result instead of exiting.
FetchIgnored ==
  /\ pc = "fetch_wait"
  /\ \E e \in ApiErrors : Settle(e)
  /\ response' = [items |-> <<>>, next_cursor |-> Undefined]
  /\ channels' = <<>>
  /\ channelsWithUnreads' = <<>>
  /\ messages' = <<>>
  /\ pc' = "users"
  /\ UNCHANGED <<env, workspace, infoResponses, idx, oldest, latest, count,
                 parents, workspaceUrl, userState, endState>>
  /\ UNCHANGED stages

\* The primary call of a command threw: the catch block of the action.
FetchFailed ==
  /\ pc = "fetch_wait"
  /\ \E e \in ApiErrors : Throw(e)
  /\ UNCHANGED <<env, workspace, response, listState, readState, userState>>
  /\ UNCHANGED stages

\* -------------------------------------------------- list / unread: stage 2
\* A test that lets a count of 0 through.
HasUnreadsOrNone(channelInfo) ==
  channelInfo.unread_count_display # NoCount

\* `channelInfo.unread_count_display && channelInfo.unread_count_display > 0`
HasUnreads(channelInfo) ==
  channelInfo.unread_count_display # NoCount
    /\ channelInfo.unread_count_display > 0

\* `channel.unread_count_display = ...; channel.last_read = ...`
CopyUnread(channel, channelInfo) ==
  [channel EXCEPT !.unread_count_display = channelInfo.unread_count_display,
                  !.last_read = channelInfo.last_read]

\* A loop that issues getConversationInfo for every remaining channel at
\* once (Promise.all) and awaits them together.
EnrichAllAtOnce ==
  /\ cmd \in {"list", "unread"}
  /\ pc = "enrich"
  /\ idx <= Len(channels)
  /\ calls' = calls \o
       [k \in 1..(Len(channels) + 1 - idx) |->
          [api |-> "getConversationInfo", arg |-> <<channels[idx + k - 1].id>>,
           status |-> "pending"]]
  /\ pc' = "enrich_wait"
  /\ UNCHANGED <<env, workspace, response, listState, readState, userState,
                 endState>>
  /\ UNCHANGED stages

\* `for (const channel of channels)`: the next getConversationInfo is issued.
EnrichNext ==
  /\ cmd \in {"list", "unread"}
  /\ pc = "enrich"
  /\ idx <= Len(channels)
  /\ Issue("getConversationInfo", <<channels[idx].id>>)
  /\ pc' = "enrich_wait"
  /\ UNCHANGED <<env, workspace, response, listState, readState, userState,
                 endState>>
  /\ UNCHANGED stages

\* A loop body that uses unshift in place of push.
EnrichBodyUnshift(channelInfo) ==
  IF FiltersUnreads
  THEN IF HasUnreads(channelInfo)
       THEN <<[channels EXCEPT ![idx] = CopyUnread(@, channelInfo)],
              <<CopyUnread(channels[idx], channelInfo)>>
                \o channelsWithUnreads>>
       ELSE <<channels, channelsWithUnreads>>
  ELSE <<[channels EXCEPT ![idx] = CopyUnread(@, channelInfo)],
         channelsWithUnreads>>

\* The body of the `try` once getConversationInfo has returned channelInfo
\* for channels[idx]: the new <<channels, channelsWithUnreads>>.
EnrichBody(channelInfo) ==
  IF FiltersUnreads
  THEN IF HasUnreads(channelInfo)
       THEN <<[channels EXCEPT ![idx] = CopyUnread(@, channelInfo)],
              Append(channelsWithUnreads,
                     CopyUnread(channels[idx], channelInfo))>>
       ELSE <<channels, channelsWithUnreads>>
  ELSE <<[channels EXCEPT ![idx] = CopyUnread(@, channelInfo)],
         channelsWithUnreads>>

\* getConversationInfo returned for channels[idx], with `ok` and a channel
\* (`if (infoResponse.ok && infoResponse.channel)`).
EnrichOk ==
  /\ pc = "enrich_wait"
  /\ \E channelInfo \in InfoChannels :
       /\ infoResponses' = Append(infoResponses,
            [id |-> channels[idx].id, status |-> "ok", channel |-> channelInfo])
       /\ channels' = EnrichBody(channelInfo)[1]
       /\ channelsWithUnreads' = EnrichBody(channelInfo)[2]
  /\ Settle("ok")
  /\ idx' = idx + 1
  /\ pc' = "enrich"
  /\ UNCHANGED <<env, workspace, response, readState, userState, endState>>
  /\ UNCHANGED stages

\* The loop without its inner try/catch: the throw reaches the outer catch.
EnrichRethrown ==
  /\ pc = "enrich_wait"
  /\ \E e \in ApiErrors : Throw(e)
  /\ UNCHANGED <<env, workspace, response, listState, readState, userState>>
  /\ UNCHANGED stages

\* A catch block that asks again for the same channel (as long as fewer
\* than MaxRetries + 1 calls were made) instead of skipping it.
EnrichRetried ==
  /\ pc = "enrich_wait"
  /\ \E e \in ApiErrors :
       /\ Settle(e)
       /\ infoResponses' = infoResponses
  /\ idx' = IF Len(calls) <= MaxRetries THEN idx ELSE idx + 1
  /\ pc' = "enrich"
  /\ UNCHANGED <<env, workspace, response, channels, channelsWithUnreads,
                 readState, userState, endState>>
  /\ UNCHANGED stages

\* getConversationInfo threw for channels[idx]: `catch (err) { }` skips the
\* channel and the loop goes on.
EnrichSkipped ==
  /\ pc = "enrich_wait"
  /\ \E e \in ApiErrors :
       /\ Settle(e)
       /\ infoResponses' = Append(infoResponses,
            [id |-> channels[idx].id, status |-> e,
             channel |-> [unread_count_display |-> NoCount,
                          last_read |-> Undefined]])
  /\ idx' = idx + 1
  /\ pc' = "enrich"
  /\ UNCHANGED <<env, workspace, response, channels, channelsWithUnreads,
                 readState, userState, endState>>
  /\ UNCHANGED stages

\* The loop is over: `channels = channelsWithUnreads` when filtering.
EnrichDone ==
  /\ cmd \in {"list", "unread"}
  /\ pc = "enrich"
  /\ idx > Len(channels)
  /\ channels' = IF cmd = "list" /\ opts.unreadOnly THEN channelsWithUnreads
                 ELSE channels
  /\ pc' = "users"
  /\ UNCHANGED <<env, workspace, calls, response, infoResponses,
                 channelsWithUnreads, idx, readState, userState, endState>>
  /\ UNCHANGED stages

\* ------------------------------------------------------- read: date filters
\* `if (options.since) oldest = parseDate(options.since)`, the same for
\* --until; a throw of parseDate is caught by the action's catch block.
ParseDates ==
  /\ cmd = "read"
  /\ pc = "dates"
  /\ LET since == parseDate(opts.since, now)
         until == parseDate(opts.until, now)
     IN IF opts.since # NoOption /\ ~since.ok
        THEN Fatal("Invalid date format") /\ UNCHANGED <<oldest, latest>>
        ELSE IF opts.until # NoOption /\ ~until.ok
        THEN Fatal("Invalid date format") /\ UNCHANGED <<oldest, latest>>
        ELSE /\ oldest' = IF opts.since # NoOption
                          THEN [set |-> TRUE, value |-> since.value]
                          ELSE NoTime
             /\ latest' = IF opts.until # NoOption
                          THEN [set |-> TRUE, value |-> until.value]
                          ELSE NoTime
             /\ pc' = "fetch"
             /\ UNCHANGED endState
  /\ UNCHANGED <<env, workspace, calls, response, listState, count, messages,
                 parents, workspaceUrl, userState>>
  /\ UNCHANGED stages

\* ------------------------------------------------------------ read: stage 1
\* `await client.getConversationReplies(...)` with --thread-ts, else
\* `await client.getConversationHistory(...)`, is issued.
ReadFetch ==
  /\ cmd = "read"
  /\ pc = "fetch"
  /\ Issue(IF opts.threadTs THEN "getConversationReplies"
           ELSE "getConversationHistory", <<oldest, latest>>)
  /\ pc' = "fetch_wait"
  /\ UNCHANGED <<env, workspace, response, listState, readState, userState,
                 endState>>
  /\ Begin("Fetch")

\* A filter that drops thread roots together with the replies.
ExcludeThreads(msgs) == SelectSeq(msgs, LAMBDA msg : msg.thread_ts = NoTs)

\* `messages.filter(msg => !msg.thread_ts || msg.thread_ts === msg.ts)`
ExcludeReplies(msgs) ==
  SelectSeq(msgs, LAMBDA msg : msg.thread_ts = NoTs \/ msg.thread_ts = msg.ts)

\* `messages.reverse()`
Reverse(msgs) == [i \in 1..Len(msgs) |-> msgs[Len(msgs) + 1 - i]]

\* The messages the action keeps of a fetched page, in emission order.
Ordered(page) ==
  Reverse(IF ~opts.threadTs /\ opts.excludeReplies THEN ExcludeReplies(page)
          ELSE page)

\* The history / replies call returned: filter, then reverse.
ReadFetched ==
  /\ cmd = "read"
  /\ pc = "fetch_wait"
  /\ \E page \in MessagePages, c \in Cursors :
       /\ response' = [items |-> page, next_cursor |-> c]
       /\ messages' = Ordered(page)
  /\ Settle("ok")
  /\ pc' = "users"
  /\ UNCHANGED <<env, workspace, listState, oldest, latest, count, parents,
                 workspaceUrl, userState, endState>>
  /\ Begin("Order")

\* ----------------------------------------------------------- search: stage 1
\* `isNaN(count) || count < 1 || count > 100`
InvalidCount(c) == c.nan \/ c.value < 1 \/ c.value > 100

\* `options.sort && !['timestamp', 'score'].includes(options.sort)`
InvalidSort(sort) == Truthy(sort) /\ sort \notin {"timestamp", "score"}

\* The two validations of the search action; each failure prints its
\* message and calls process.exit(1).
Validate ==
  /\ cmd = "search"
  /\ pc = "validate"
  /\ count' = ParseInt(opts.count)
  /\ IF InvalidCount(count')
     THEN Fatal("Count must be between 1 and 100")
     ELSE IF InvalidSort(opts.sort)
     THEN Fatal("Sort must be either \"timestamp\" or \"score\"")
     ELSE pc' = "fetch" /\ UNCHANGED endState
  /\ UNCHANGED <<env, workspace, calls, response, listState, oldest, latest,
                 messages, parents, workspaceUrl, userState>>
  /\ UNCHANGED stages

\* `await client.searchMessages(options.query, {count, sort, channel})` is
\* issued.
SearchFetch ==
  /\ cmd = "search"
  /\ pc = "fetch"
  /\ Issue("searchMessages", <<count.value, opts.sort>>)
  /\ pc' = "fetch_wait"
  /\ UNCHANGED <<env, workspace, response, listState, readState, userState,
                 endState>>
  /\ Begin("Fetch")

\* searchMessages returned, with `ok` (so `if (!searchResults.ok)` is passed):
\* `matches = searchResults.messages?.matches || []`.
SearchFetched ==
  /\ cmd = "search"
  /\ pc = "fetch_wait"
  /\ \E page \in MatchPages :
       /\ response' = [items |-> page, next_cursor |-> Undefined]
       /\ messages' = page
  /\ Settle("ok")
  /\ pc' = "users"
  /\ UNCHANGED <<env, workspace, listState, oldest, latest, count, parents,
                 workspaceUrl, userState, endState>>
  /\ UNCHANGED stages

\* ------------------------------------------------------- stage 3: users
RECURSIVE DmUserIds(_)
\* `channels.forEach(ch => { if (ch.is_im && ch.user) userIds.add(ch.user) })`
DmUserIds(chs) ==
  IF chs = <<>> THEN <<>>
  ELSE LET ch == chs[Len(chs)]
           before == DmUserIds(SubSeq(chs, 1, Len(chs) - 1))
       IN IF ch.is_im /\ Truthy(ch.user) THEN SetAdd(before, ch.user)
          ELSE before

RECURSIVE AuthorIds(_)
\* `messages.forEach(msg => { if (msg.user) userIds.add(msg.user) })`
AuthorIds(msgs) ==
  IF msgs = <<>> THEN <<>>
  ELSE LET msg == msgs[Len(msgs)]
           before == AuthorIds(SubSeq(msgs, 1, Len(msgs) - 1))
       IN IF Truthy(msg.user) THEN SetAdd(before, msg.user) ELSE before

\* The Set the action builds before `if (userIds.size > 0)`.
CollectUserIds ==
  CASE cmd = "list" -> DmUserIds(channels)
    [] cmd = "unread" -> DmUserIds(channelsWithUnreads)
    [] OTHER -> AuthorIds(messages)

\* `userIds.size > 0`
ShouldFetchUsers(ids) == Len(ids) > 0

\* An action that never builds the parents Map.
AfterUsersToEmit == "emit"

\* Where the action goes once the users Map is built.
AfterUsers == IF cmd = "read" THEN "parents" ELSE "emit"

\* The Set is built; `await client.getUsersInfo(Array.from(userIds))` is
\* issued when it is not empty.
ResolveUsers ==
  /\ pc = "users"
  /\ userIds' = CollectUserIds
  /\ IF ShouldFetchUsers(userIds')
     THEN /\ Issue("getUsersInfo", userIds')
          /\ pc' = "users_wait"
     ELSE /\ pc' = AfterUsers
          /\ UNCHANGED calls
  /\ UNCHANGED <<env, workspace, response, listState, readState, users,
                 endState>>
  /\ Begin("ResolveUsers")

\* getUsersInfo returned, with `ok` and the users asked for:
\* `users.set(user.id, user)` for each user.
UsersOk ==
  /\ pc = "users_wait"
  /\ Settle("ok")
  /\ users' = Range(userIds)
  /\ pc' = AfterUsers
  /\ UNCHANGED <<env, workspace, response, listState, readState, userIds,
                 endState>>
  /\ UNCHANGED stages

\* A catch block that goes on with an empty user map instead of exiting.
UsersTolerated ==
  /\ pc = "users_wait"
  /\ \E e \in ApiErrors : Settle(e)
  /\ users' = {}
  /\ pc' = AfterUsers
  /\ UNCHANGED <<env, workspace, response, listState, readState, userIds,
                 endState>>
  /\ UNCHANGED stages

\* A catch block that issues getUsersInfo again (at most MaxRetries times)
\* instead of exiting.
UsersRetried ==
  /\ pc = "users_wait"
  /\ Len(calls) <= MaxRetries
  /\ \E e \in ApiErrors :
       calls' = Append([calls EXCEPT ![Len(calls)].status = e],
                       [api |-> "getUsersInfo", arg |-> userIds,
                        status |-> "pending"])
  /\ UNCHANGED <<env, workspace, pc, response, listState, readState,
                 userState, endState>>
  /\ UNCHANGED stages

\* getUsersInfo threw: the catch block of the action.
UsersFailed ==
  /\ pc = "users_wait"
  /\ \E e \in ApiErrors : Throw(e)
  /\ UNCHANGED <<env, workspace, response, listState, readState, userState>>
  /\ UNCHANGED stages

\* An index keyed by the thread_ts of every threaded message, roots and
\* replies alike.
BuildParentsLoose(msgs) ==
  LET threaded == {i \in 1..Len(msgs) : msgs[i].thread_ts # NoTs}
      last(t) == CHOOSE i \in threaded :
                   /\ msgs[i].thread_ts = t
                   /\ \A j \in threaded : msgs[j].thread_ts = t => j <= i
  IN [t \in {msgs[i].thread_ts : i \in threaded} |-> msgs[last(t)]]

\* ------------------------------------------------------------ read: stage 4
\* `messages.forEach(msg => { if (msg.thread_ts === msg.ts)
\*    parents.set(msg.ts, msg) })`: a later message replaces an earlier one.
BuildParents(msgs) ==
  LET roots == {i \in 1..Len(msgs) : msgs[i].thread_ts = msgs[i].ts}
      last(t) == CHOOSE i \in roots :
                   /\ msgs[i].ts = t
                   /\ \A j \in roots : msgs[j].ts = t => j <= i
  IN [t \in {msgs[i].ts : i \in roots} |-> msgs[last(t)]]

\* The parents Map is built from the messages about to be printed.
ResolveThreadParents ==
  /\ cmd = "read"
  /\ pc = "parents"
  /\ parents' = BuildParents(messages)
  /\ pc' = "workspace"
  /\ UNCHANGED <<env, workspace, calls, response, listState, oldest, latest,
                 count, messages, workspaceUrl, userState, endState>>
  /\ Begin("ResolveThreadParents")

\* An action that asks auth.test for the url whatever the workspace is.
GetWorkspaceUrlAlways ==
  /\ cmd = "read"
  /\ pc = "workspace"
  /\ Issue("testAuth", <<>>)
  /\ pc' = "auth_wait"
  /\ UNCHANGED workspaceUrl
  /\ UNCHANGED <<env, workspace, response, listState, oldest, latest, count,
                 messages, parents, userState, endState>>
  /\ UNCHANGED stages

\* `await getWorkspace(options.workspace)`: a browser workspace carries its
\* url, for a standard one `await client.testAuth()` is issued.
GetWorkspaceUrl ==
  /\ cmd = "read"
  /\ pc = "workspace"
  /\ IF workspace = "browser"
     THEN /\ workspaceUrl' = StoredUrl
          /\ pc' = "emit"
          /\ UNCHANGED calls
     ELSE /\ Issue("testAuth", <<>>)
          /\ pc' = "auth_wait"
          /\ UNCHANGED workspaceUrl
  /\ UNCHANGED <<env, workspace, response, listState, oldest, latest, count,
                 messages, parents, userState, endState>>
  /\ UNCHANGED stages

\* testAuth returned: `if (authTest.url) workspaceUrl = authTest.url`.
AuthTestOk ==
  /\ pc = "auth_wait"
  /\ Settle("ok")
  /\ \E url \in {AuthTestUrl, Undefined} :
       workspaceUrl' = IF Truthy(url) THEN url ELSE workspaceUrl
  /\ pc' = "emit"
  /\ UNCHANGED <<env, workspace, response, listState, oldest, latest, count,
                 messages, parents, userState, endState>>
  /\ UNCHANGED stages

\* testAuth threw: the catch block of the action.
AuthTestFailed ==
  /\ pc = "auth_wait"
  /\ \E e \in ApiErrors : Throw(e)
  /\ UNCHANGED <<env, workspace, response, listState, readState, userState>>
  /\ UNCHANGED stages

\* ------------------------------------------------------------------ stage 6
\* The "To see more results" hint: printed for a truthy next_cursor.
CursorHint(next_cursor) ==
  IF Truthy(next_cursor) THEN next_cursor ELSE Undefined

\* `conversations list`: the cursor of the hint after the channel list.
ListCursor == CursorHint(response.next_cursor)

\* `conversations unread`: the channel list is all that is printed.
UnreadCursor == Undefined

\* `next_cursor: response.response_metadata?.next_cursor` of the JSON object.
JsonCursor == response.next_cursor

\* `conversations read`: the cursor of the hint after the history.
ReadCursor == CursorHint(response.next_cursor)

\* formatConversationHistory with formatMessage's `isThread && parentMessage`:
\* the parent whose preview is printed with msg, NoMessage for none.
parentMessage(msg, parentsMap) ==
  IF msg.thread_ts # NoTs /\ msg.thread_ts # msg.ts
       /\ msg.thread_ts \in DOMAIN parentsMap
  THEN parentsMap[msg.thread_ts]
  ELSE NoMessage

formatConversationHistory(msgs, parentsMap) ==
  [i \in 1..Len(msgs) |-> parentMessage(msgs[i], parentsMap)]

\* The JSON object has no parent context.
JsonParents(msgs) == [i \in 1..Len(msgs) |-> NoMessage]

\* What the process prints as its result, then it ends.
Emit(format, items, shownParents, cursor) ==
  /\ out' = [emitted |-> TRUE, format |-> format, items |-> items,
             parents |-> shownParents, users |-> users, cursor |-> cursor,
             message_count |-> Len(items)]
  /\ pc' = "done"
  /\ exitCode' = "0"
  /\ UNCHANGED <<errMsg, stderr>>
  /\ Begin("Emit")

\* formatChannelList(channels, users): the order in which the channels are
\* printed. It sorts them into groups and prints public channels, private
\* channels, group messages and then direct messages, each group in the
\* order of `channels`; the channels of the model carry neither is_mpim nor
\* is_private, so what is no direct message is a public channel.
formatChannelList(chs) ==
  SelectSeq(chs, LAMBDA ch : ~ch.is_im) \o SelectSeq(chs, LAMBDA ch : ch.is_im)

\* `console.log(formatChannelList(channels, users))` and the hint.
ListEmit ==
  /\ cmd = "list"
  /\ pc = "emit"
  /\ Emit("human", formatChannelList(channels), <<>>, ListCursor)
  /\ UNCHANGED <<env, workspace, calls, response, listState, readState,
                 userState>>

\* `console.log(formatChannelList(channelsWithUnreads, users))`.
UnreadEmit ==
  /\ cmd = "unread"
  /\ pc = "emit"
  /\ Emit("human", formatChannelList(channelsWithUnreads), <<>>,
          UnreadCursor)
  /\ UNCHANGED <<env, workspace, calls, response, listState, readState,
                 userState>>

\* `if (options.json) console.log(JSON.stringify({...}))`, else the
\* formatted history and the hint.
ReadEmit ==
  /\ cmd = "read"
  /\ pc = "emit"
  /\ IF opts.json
     THEN Emit("json", messages, JsonParents(messages), JsonCursor)
     ELSE Emit("human", messages,
               formatConversationHistory(messages, parents), ReadCursor)
  /\ UNCHANGED <<env, workspace, calls, response, listState, readState,
                 userState>>

\* `console.log(formatSearchResults(searchResults, users))`.
SearchEmit ==
  /\ cmd = "search"
  /\ pc = "emit"
  /\ Emit("human", messages, <<>>, Undefined)
  /\ UNCHANGED <<env, workspace, calls, response, listState, readState,
                 userState>>

\* ------------------------------------------------------------ auth commands
\* Everything but the credential store.
pipeline == <<cmd, opts, now, workspace, pc, calls, response, listState,
              readState, userState, endState, stages>>

\* One more store mutation may be tried.
CanMutate == Len(authLog) < MaxOps

\* The command ended well: `success(...)`.
Succeeded(op, arg) ==
  /\ authLog' = Append(authLog, [op |-> op, arg |-> arg])
  /\ authResult' = [op |-> op, arg |-> arg, error |-> Undefined,
                    exitCode |-> "0", value |-> Undefined]

\* The store function threw: `error(...)`, `process.exit(1)`.
Exited(op, arg, e) ==
  /\ UNCHANGED authLog
  /\ authResult' = [op |-> op, arg |-> arg, error |-> e, exitCode |-> "1",
                    value |-> Undefined]

\* `auth login` / `auth login-browser`: the authenticated config is added; a
\* failed authentication throws before the store is touched.  Whether the
\* first workspace added becomes the default is left open.
AuthLogin ==
  \E c \in Configs :
    /\ CanMutate
    /\ \/ /\ store' = StoreAdd(store, c)
          /\ defaultId' \in {defaultId}
               \cup (IF defaultId = Undefined THEN {c.workspace_id} ELSE {})
          /\ Succeeded("add", c.workspace_id)
       \/ /\ UNCHANGED <<store, defaultId>>
          /\ Exited("add", c.workspace_id, "invalid_auth")
    /\ UNCHANGED pipeline

\* `auth set-default <workspace-id>`: setDefaultWorkspace(workspaceId).
AuthSetDefault ==
  \E id \in WorkspaceIds \cup {UnknownId} :
    /\ CanMutate
    /\ IF id \in StoreIds(store)
       THEN /\ defaultId' = id
            /\ Succeeded("setDefault", id)
       ELSE /\ UNCHANGED defaultId
            /\ Exited("setDefault", id, "WorkspaceNotFound")
    /\ UNCHANGED <<store, pipeline>>

\* `auth remove <workspace-id>`: removeWorkspace(workspaceId).  What remove
\* does with an id that is not stored is left open: nothing, or a throw.
AuthRemove ==
  \E id \in WorkspaceIds \cup {UnknownId} :
    /\ CanMutate
    /\ store' = StoreRemove(store, id)
    /\ defaultId' = DefaultAfterRemove(store, defaultId, id)
    /\ \/ Succeeded("remove", id)
       \/ /\ id \notin StoreIds(store)
          /\ Exited("remove", id, "WorkspaceNotFound")
    /\ UNCHANGED pipeline

\* `auth logout`: clearAllWorkspaces().
AuthLogout ==
  /\ CanMutate
  /\ store' = <<>>
  /\ defaultId' = Undefined
  /\ Succeeded("clear", Undefined)
  /\ UNCHANGED pipeline

\* `auth list`: getAllWorkspaces() and getDefaultWorkspaceId().
AuthList ==
  /\ authResult' = [op |-> "list", arg |-> Undefined, error |-> Undefined,
                    exitCode |-> "0",
                    value |-> [workspaces |-> store, defaultId |-> defaultId]]
  /\ UNCHANGED <<store, defaultId, authLog, pipeline>>

\* The identifiers a lookup may be given: none, an id, a name.
Identifiers ==
  {Undefined, UnknownId, "nobody"} \cup WorkspaceIds
    \cup {WorkspaceName(id) : id \in WorkspaceIds}

\* get(idOrName?), as getAuthenticatedClient and getWorkspace call it.
Lookup ==
  \E x \in Identifiers :
    LET got == StoreGet(store, defaultId, x)
    IN /\ authResult' =
            [op |-> "get", arg |-> x,
             error |-> IF got.found THEN Undefined ELSE "WorkspaceNotFound",
             exitCode |-> IF got.found THEN "0" ELSE "1",
             value |-> got.config]
       /\ UNCHANGED <<store, defaultId, authLog, pipeline>>

\* ------------------------------------------------------------------ system
Next ==
  \/ GetClient
  \/ ListFetch
  \/ ListFetched
  \/ FetchFailed
  \/ EnrichNext
  \/ EnrichOk
  \/ EnrichSkipped
  \/ EnrichDone
  \/ ParseDates
  \/ ReadFetch
  \/ ReadFetched
  \/ Validate
  \/ SearchFetch
  \/ SearchFetched
  \/ ResolveUsers
  \/ UsersOk
  \/ UsersFailed
  \/ ResolveThreadParents
  \/ GetWorkspaceUrl
  \/ AuthTestOk
  \/ AuthTestFailed
  \/ ListEmit
  \/ UnreadEmit
  \/ ReadEmit
  \/ SearchEmit

Spec == Init /\ [][Next]_vars

\* The process keeps running and every awaited call returns or throws: no
\* step that can be taken is put off for ever.
SpecLive == Init /\ [][Next]_vars /\ WF_vars(Next)

\* The date resolver alone: the read action up to its first API call.
NextDate ==
  \/ GetClient
  \/ ParseDates
  \/ ReadFetch

SpecDate == InitDate /\ [][NextDate]_vars

\* The primary call of a command threw one of the Slack error codes: the
\* catch block of the action.
FetchRejected ==
  /\ pc = "fetch_wait"
  /\ \E e \in SlackErrors : Throw(e)
  /\ UNCHANGED <<env, workspace, response, listState, readState, userState>>
  /\ UNCHANGED stages

\* Every command up to its primary call, which fails with any Slack error
\* code.
NextError ==
  \/ GetClient
  \/ ListFetch
  \/ ParseDates
  \/ ReadFetch
  \/ Validate
  \/ SearchFetch
  \/ FetchRejected

SpecError == Init /\ [][NextError]_vars

\* ------------------------------------------------------------ entry point
\* The command group a subcommand belongs to: the first word of argv.
Group(command) ==
  CASE command \in {"list", "unread", "read"} -> "conversations"
    [] command = "search" -> "search"
    [] OTHER -> "auth"

\* `program.addCommand(createAuthCommand())` and
\* `program.addCommand(createConversationsCommand())`: the groups index.ts
\* registers.
Registered == {"auth", "conversations"}

\* `program.parse(process.argv)`: commander runs the action of a registered
\* group; for any other first word it reports an unknown command and exits
\* with status 1 before any action runs.
Dispatch ==
  /\ pc = "main"
  /\ IF Group(cmd) \in Registered
     THEN /\ pc' = IF cmd = "auth" THEN "auth" ELSE "client"
          /\ UNCHANGED endState
     ELSE /\ pc' = "unknown_command"
          /\ exitCode' = "1"
          /\ UNCHANGED <<out, errMsg, stderr>>
  /\ UNCHANGED <<env, workspace, calls, response, listState, readState,
                 userState>>
  /\ UNCHANGED stages

\* The process at its entry point, for any command line of the contract.
InitMain ==
  /\ cmd \in {"auth", "list", "unread", "read", "search"}
  /\ opts \in (CASE cmd = "list" -> ListOpts
                 [] cmd = "read" -> ReadOpts
                 [] cmd = "search" -> SearchOpts
                 [] OTHER -> {DefaultOpts})
  /\ now = StartTime
  /\ pc = "main"
  /\ workspace = Undefined
  /\ calls = <<>>
  /\ response = [items |-> <<>>, next_cursor |-> Undefined]
  /\ infoResponses = <<>>
  /\ channels = <<>>
  /\ channelsWithUnreads = <<>>
  /\ idx = 1
  /\ oldest = NoTime
  /\ latest = NoTime
  /\ count = NaN
  /\ messages = <<>>
  /\ userIds = <<>>
  /\ users = {}
  /\ parents = <<>>
  /\ workspaceUrl = Undefined
  /\ out = NoOutput
  /\ exitCode = Undefined
  /\ errMsg = Undefined
  /\ stderr = NoError
  /\ stages = <<>>
  /\ \E found \in StoreSamples :
       store = found.store /\ defaultId = found.defaultId
  /\ authLog = <<>>
  /\ authResult = NoResult

\* From the entry point to the primary call of the command.
NextMain ==
  \/ Dispatch
  \/ GetClient
  \/ ListFetch
  \/ ParseDates
  \/ ReadFetch

SpecMain == InitMain /\ [][NextMain]_vars

\* The credential store under any sequence of auth commands and lookups,
\* from an empty store.
InitStore ==
  /\ cmd = "auth"
  /\ opts = DefaultOpts
  /\ now = StartTime
  /\ pc = "auth"
  /\ workspace = Undefined
  /\ calls = <<>>
  /\ response = [items |-> <<>>, next_cursor |-> Undefined]
  /\ infoResponses = <<>>
  /\ channels = <<>>
  /\ channelsWithUnreads = <<>>
  /\ idx = 1
  /\ oldest = NoTime
  /\ latest = NoTime
  /\ count = NaN
  /\ messages = <<>>
  /\ userIds = <<>>
  /\ users = {}
  /\ parents = <<>>
  /\ workspaceUrl = Undefined
  /\ out = NoOutput
  /\ exitCode = Undefined
  /\ errMsg = Undefined
  /\ stderr = NoError
  /\ stages = <<>>
  /\ store = <<>>
  /\ defaultId = Undefined
  /\ authLog = <<>>
  /\ authResult = NoResult

NextStore ==
  \/ AuthLogin
  \/ AuthSetDefault
  \/ AuthRemove
  \/ AuthLogout
  \/ AuthList
  \/ Lookup

SpecStore == InitStore /\ [][NextStore]_vars

\* ===================================================================== C1
\* The entries of the emitted list that show channel id.
Shown(id) == {i \in 1..Len(out.items) : out.items[i].id = id}

\* The unread fields the emitted entry i carries.
ShownUnread(i) ==
  [unread_count_display |-> out.items[i].unread_count_display,
   last_read |-> out.items[i].last_read]

\* C1: a getConversationInfo failure for channel X never aborts list or
\* unread. Once the result is emitted every channel of the page has been
\* asked; with list --show-unreads (no --unread-only) X is in the result
\* with unread_count_display and last_read unset and a channel Y whose call
\* succeeded carries the values of its response; with unread or list
\* --unread-only X is not in the result and Y is in it, with the values of
\* its response, exactly when its unread count is positive.
C1_UnreadFailureSkipsChannel ==
  /\ (calls # <<>> /\ calls[Len(calls)].api = "getConversationInfo")
       => pc # "failed"
  /\ (out.emitted /\ cmd \in {"list", "unread"}
        /\ (cmd = "unread" \/ opts.unreadOnly \/ opts.showUnreads)) =>
       /\ Len(infoResponses) = Len(response.items)
       /\ \A k \in 1..Len(infoResponses) :
            LET r == infoResponses[k]
            IN /\ r.id = response.items[k].id
               /\ IF cmd = "list" /\ ~opts.unreadOnly
                  THEN \E i \in Shown(r.id) :
                         ShownUnread(i) =
                           (IF r.status = "ok" THEN r.channel
                            ELSE [unread_count_display |-> NoCount,
                                  last_read |-> Undefined])
                  ELSE IF r.status = "ok" /\ r.channel.unread_count_display > 0
                       THEN \E i \in Shown(r.id) : ShownUnread(i) = r.channel
                       ELSE Shown(r.id) = {}

\* list --show-unreads over two channels: the call for the first threw
\* ratelimited, the second has 2 unread; both are emitted.
C1_Witness ==
  /\ out.emitted /\ cmd = "list" /\ opts.showUnreads /\ ~opts.unreadOnly
  /\ Len(infoResponses) = 2
  /\ infoResponses[1].status = "ratelimited"
  /\ infoResponses[2].status = "ok"
  /\ Len(out.items) = 2
  /\ out.items[1].unread_count_display = NoCount
  /\ out.items[2].unread_count_display = 2
  /\ exitCode = "0"

\* ===================================================================== C2
\* A call that has failed: the client threw.
Failed(call) == call.status \notin {"pending", "ok"}

C3_ReadEmitsAscendingTs ==
  (out.emitted /\ cmd = "read") =>
    \A i, j \in 1..Len(out.items) :
      i < j => out.items[i].ts < out.items[j].ts

\* ===================================================================== C4
\* A reply: thread_ts present and different from ts.
IsReply(m) == m.thread_ts # NoTs /\ m.thread_ts # m.ts

\* The messages of the fetched page that are the root of m's thread.
RootsInPage(m) ==
  {j \in 1..Len(response.items) :
     /\ response.items[j].ts = response.items[j].thread_ts
     /\ response.items[j].ts = m.thread_ts}

\* Each emitted reply has a parent exactly when the fetched page holds the
\* root of its thread, the parent is that root, and no other message has one.
ParentsFollowPage ==
  \A i \in 1..Len(out.items) :
    LET m == out.items[i]
    IN IF IsReply(m)
       THEN /\ out.parents[i] # NoMessage <=> RootsInPage(m) # {}
            /\ RootsInPage(m) # {} =>
                 \E j \in RootsInPage(m) : out.parents[i] = response.items[j]
       ELSE out.parents[i] = NoMessage

\* The read command never fails for another reason than its client, a date
\* or an API call.
ReadFailsOnlyOnErrors ==
  (cmd = "read" /\ pc = "failed") =>
    \/ errMsg \in {"No authenticated workspaces found", "Invalid date format"}
    \/ calls # <<>> /\ Failed(calls[Len(calls)])

\* C4 as stated: in every output of the read command a reply has a parent
\* message if and only if the fetched page holds the root of its thread.
C4_ReplyHasParentIffRootInPage ==
  /\ ReadFailsOnlyOnErrors
  /\ (out.emitted /\ cmd = "read") => ParentsFollowPage

\* C4 amended: the same for the human-readable output; the --json output
\* carries no parent for any message.
C4_HumanReplyHasParentIffRootInPage ==
  /\ ReadFailsOnlyOnErrors
  /\ (out.emitted /\ cmd = "read" /\ out.format = "human") => ParentsFollowPage
  /\ (out.emitted /\ cmd = "read" /\ out.format = "json") =>
       \A i \in 1..Len(out.items) : out.parents[i] = NoMessage

\* Human-readable history of a page [reply 2 of thread 1, root 1]: emitted
\* root first, the reply with the root as its parent.
C4_Witness ==
  /\ out.emitted /\ cmd = "read" /\ out.format = "human"
  /\ Len(out.items) = 2
  /\ out.items[1].ts = 1 /\ out.items[1].thread_ts = 1
  /\ out.items[2].ts = 2 /\ out.items[2].thread_ts = 1
  /\ out.parents[2] = out.items[1]
  /\ exitCode = "0"

\* ===================================================================== C5
\* C5: the result of list, unread and read carries the next_cursor of the
\* primary response unchanged, and none when the response has none.
C5_CursorPassedThrough ==
  (out.emitted /\ cmd \in {"list", "unread", "read"})
    => out.cursor = response.next_cursor

\* ===================================================================== C6
\* C6: searchMessages is only ever issued with a count of 1..100 and a sort
\* of "timestamp" or "score"; any other --count or --sort ends the command
\* with a validation error before the call.
C6_SearchArgumentsValidated ==
  \A k \in 1..Len(calls) :
    calls[k].api = "searchMessages" =>
      /\ calls[k].arg[1] \in 1..100
      /\ calls[k].arg[2] \in {"timestamp", "score"}
      /\ calls[k].arg[2] = opts.sort

\* ===================================================================== C7
\* No call is issued again after a rate-limited response to it.
NoReissue ==
  \A k \in 1..Len(calls) :
    calls[k].status = "ratelimited" =>
      \A l \in (k + 1)..Len(calls) :
        ~(calls[l].api = calls[k].api /\ calls[l].arg = calls[k].arg)

\* C7 as stated: no call is re-issued after a rate-limited response, and a
\* rate-limited response to any call fails the invocation.
C7_RateLimitAlwaysFatal ==
  /\ NoReissue
  /\ \A k \in 1..Len(calls) :
       calls[k].status = "ratelimited" =>
         pc = "failed" /\ exitCode = "1" /\ ~out.emitted

\* C7 amended: no call is re-issued after a rate-limited response; a
\* rate-limited response to any call but getConversationInfo ends the
\* invocation at that call with status 1 and no result; a rate-limited
\* getConversationInfo does not fail the invocation.
C7_RateLimitFatalOutsideUnreadLoop ==
  /\ NoReissue
  /\ \A k \in 1..Len(calls) :
       (calls[k].status = "ratelimited"
          /\ calls[k].api # "getConversationInfo") =>
         /\ k = Len(calls)
         /\ pc = "failed" /\ exitCode = "1" /\ ~out.emitted
  /\ (calls # <<>> /\ calls[Len(calls)].api = "getConversationInfo"
        /\ calls[Len(calls)].status = "ratelimited") => pc # "failed"

\* unread: getConversationInfo of the first channel was rate-limited and
\* skipped, the second channel is a DM with unreads, and getUsersInfo then
\* threw ratelimited, which ended the invocation.
C7_Witness ==
  /\ cmd = "unread" /\ pc = "failed" /\ exitCode = "1"
  /\ Len(calls) = 4
  /\ calls[2].api = "getConversationInfo" /\ calls[2].status = "ratelimited"
  /\ calls[3].api = "getConversationInfo" /\ calls[3].status = "ok"
  /\ calls[4].api = "getUsersInfo" /\ calls[4].status = "ratelimited"

\* ===================================================================== C8
\* The primary call of each command.
PrimaryCalls ==
  {"listConversations", "getConversationHistory", "getConversationReplies",
   "searchMessages"}

\* C8: when the primary call fails it is the last call of the invocation,
\* nothing is emitted and the process ends with status 1.
C8_PrimaryFailureAborts ==
  \A k \in 1..Len(calls) :
    (calls[k].api \in PrimaryCalls /\ Failed(calls[k])) =>
      /\ k = Len(calls)
      /\ pc = "failed" /\ exitCode = "1" /\ ~out.emitted

\* read --thread-ts: getConversationReplies threw channel_not_found.
C8_Witness ==
  /\ cmd = "read" /\ opts.threadTs
  /\ calls = <<[api |-> "getConversationReplies", arg |-> <<NoTime, NoTime>>,
                status |-> "channel_not_found"]>>
  /\ pc = "failed" /\ exitCode = "1" /\ ~out.emitted
  /\ errMsg = "channel_not_found"

\* ===================================================================== C9
\* The user ids the emitted result refers to: the counterpart of each im
\* channel (list, unread), the author of each message (read, search).
ReferencedIds ==
  IF cmd \in {"list", "unread"}
  THEN {out.items[i].user : i \in {j \in 1..Len(out.items) :
                                     out.items[j].is_im
                                       /\ out.items[j].user # Undefined}}
  ELSE {out.items[i].user : i \in {j \in 1..Len(out.items) :
                                     out.items[j].user # Undefined}}

\* The getUsersInfo calls of the invocation.
UsersCalls == {k \in 1..Len(calls) : calls[k].api = "getUsersInfo"}

\* C9: getUsersInfo is never called twice; when the result is emitted it has
\* been called once if the result refers to a user id and not at all
\* otherwise, and the ids it was passed are without duplicates and are
\* exactly the ids the result refers to.
C9_UsersResolvedOnce ==
  /\ Cardinality(UsersCalls) <= 1
  /\ out.emitted =>
       /\ Cardinality(UsersCalls) = (IF ReferencedIds # {} THEN 1 ELSE 0)
       /\ \A k \in UsersCalls :
            /\ \A i, j \in 1..Len(calls[k].arg) :
                 i # j => calls[k].arg[i] # calls[k].arg[j]
            /\ Range(calls[k].arg) = ReferencedIds

\* read of two messages by the same author: one call, one id.
C9_Witness ==
  /\ out.emitted /\ cmd = "read"
  /\ Len(out.items) = 2
  /\ out.items[1].user = "U1" /\ out.items[2].user = "U1"
  /\ Cardinality(UsersCalls) = 1
  /\ \A k \in UsersCalls : calls[k].arg = <<"U1">>

\* ==================================================================== C10
\* The seconds of one unit, as the specification counts them.
UnitSeconds(unit) ==
  CASE ToLowerCase(unit) \in {"hour", "hours"} -> 3600
    [] ToLowerCase(unit) \in {"day", "days"} -> 86400
    [] ToLowerCase(unit) \in {"week", "weeks"} -> 604800

\* The read action has resolved --since and gone on to its fetch.
DatesResolved == pc \in {"fetch", "fetch_wait"}

\* C10: every well-formed "N unit ago", in any letter case, resolves (it
\* never raises the invalid-date error) to the whole second k with
\* k <= now - N * unitSeconds < k + 1, and for the same clock and unit a
\* larger N resolves to a strictly smaller second.
C10_RelativeDateFloorsAndDecreases ==
  \A c \in RelativeCases :
    opts.since = ExprOf(c) =>
      /\ errMsg # "Invalid date format"
      /\ DatesResolved =>
           /\ oldest.set
           /\ oldest.value * 1000 <= now - c.n * UnitSeconds(c.unit) * 1000
           /\ now - c.n * UnitSeconds(c.unit) * 1000 < (oldest.value + 1) * 1000
           /\ \A d \in RelativeCases :
                (d.unit = c.unit /\ d.n > c.n) =>
                   parseDate(ExprOf(d), now).value < oldest.value

\* "2 WEEKS AGO" read at 1900000.123 s resolves to second 690400.
C10_Witness ==
  /\ DatesResolved
  /\ now = StartTime
  /\ opts.since = <<"2", " ", "WEEKS", " ", "AGO">>
  /\ oldest = [set |-> TRUE, value |-> 690400]

\* ==================================================================== C11
\* An option holds an expression of neither grammar.
BadDateGiven == opts.since \in MalformedDates \/ opts.until \in MalformedDates

\* The read action is past its date filters.
PastDates ==
  pc \notin {"client", "dates"}
    /\ errMsg # "No authenticated workspaces found"

\* C11: when --since or --until is neither a relative expression nor a
\* parseable calendar date, the read action ends at its date filters with the
\* invalid-date-format error and status 1; no API call is ever issued and
\* nothing is emitted.
C11_InvalidDateIsFatal ==
  BadDateGiven =>
    /\ calls = <<>>
    /\ ~out.emitted
    /\ PastDates =>
         pc = "failed" /\ exitCode = "1" /\ errMsg = "Invalid date format"

\* read --since not-a-date has ended with the error, before any call.
C11_Witness ==
  /\ cmd = "read" /\ opts.since = <<"not-a-date">>
  /\ pc = "failed" /\ exitCode = "1" /\ errMsg = "Invalid date format"
  /\ calls = <<>> /\ oldest = NoTime

\* ==================================================================== C12
\* C12: whatever auth commands have run, failed ones included, no two stored
\* configs share a workspace id and the default pointer is unset or is the id
\* of a stored config.
C12_StoreIdsUniqueDefaultStored ==
  /\ \A i, j \in 1..Len(store) :
       i # j => store[i].workspace_id # store[j].workspace_id
  /\ defaultId = Undefined
       \/ \E i \in 1..Len(store) : store[i].workspace_id = defaultId

\* Two workspaces stored, T1 added twice and the default, after a failed
\* set-default.
C12_Witness ==
  /\ Len(store) = 2 /\ defaultId = "T1"
  /\ Len(authLog) = 3
  /\ authLog[1] = [op |-> "add", arg |-> "T1"]
  /\ authLog[2] = [op |-> "add", arg |-> "T1"]
  /\ authLog[3] = [op |-> "add", arg |-> "T2"]
  /\ authResult.op = "setDefault" /\ authResult.error = "WorkspaceNotFound"

\* ==================================================================== C13
\* The log of add(a), add(b), setDefault(b).
AddAddSetDefault(a, b) ==
  <<[op |-> "add", arg |-> a], [op |-> "add", arg |-> b],
    [op |-> "setDefault", arg |-> b]>>

\* C13: after add(A), add(B), setDefault(B.id) the default id is B.id; after
\* remove(B.id) next, the default id is unset, B is gone and A is still
\* stored.
C13_RemovingDefaultPromotesNothing ==
  \A a, b \in WorkspaceIds :
    a # b =>
      /\ authLog = AddAddSetDefault(a, b) => defaultId = b
      /\ authLog = Append(AddAddSetDefault(a, b),
                          [op |-> "remove", arg |-> b]) =>
           /\ defaultId = Undefined
           /\ StoreIds(store) = {a}

\* add(T1), add(T2), setDefault(T2), remove(T2): T1 is stored, no default.
C13_Witness ==
  /\ authLog = Append(AddAddSetDefault("T1", "T2"),
                      [op |-> "remove", arg |-> "T2"])
  /\ defaultId = Undefined
  /\ Len(store) = 1 /\ store[1].workspace_id = "T1"

\* ==================================================================== C14
\* No stored config has x as its id or its name.
MatchesNothing(x) ==
  \A i \in 1..Len(store) :
    store[i].workspace_id # x /\ store[i].workspace_name # x

\* C14: a get on an empty store, a get of an identifier that is no stored id
\* or name, and a setDefault of an id that is not stored each end with
\* WorkspaceNotFound and leave the configs and the default pointer as they
\* were.
C14_LookupMissFailsStoreUnchanged ==
  [][/\ (authResult'.op = "get"
           /\ (store = <<>>
                 \/ (authResult'.arg # Undefined
                       /\ MatchesNothing(authResult'.arg)))) =>
          /\ authResult'.error = "WorkspaceNotFound"
          /\ authResult'.exitCode = "1"
          /\ store' = store /\ defaultId' = defaultId
     /\ (authResult'.op = "setDefault"
           /\ authResult'.arg \notin StoreIds(store)) =>
          /\ authResult'.error = "WorkspaceNotFound"
          /\ authResult'.exitCode = "1"
          /\ store' = store /\ defaultId' = defaultId]_vars

\* A get of an unknown name on a store of two workspaces has missed.
C14_Witness ==
  /\ Len(store) = 2
  /\ authResult.op = "get" /\ authResult.arg = "nobody"
  /\ authResult.error = "WorkspaceNotFound"

\* ---------------------------------------------------------------- C15
\* The message of the fatal error is a Slack error code.
FailedWithCode == pc = "failed" /\ errMsg \in SlackErrors

\* C15: when the message of a fatal error is an API error code, a code of
\* formatSlackError's table is printed as its mapped message, which is not
\* the code, together with its hint, and any other code is printed verbatim
\* with no hint, whatever hint the command passed to error().
C15_KnownCodeMappedUnknownVerbatim ==
  FailedWithCode =>
    IF errMsg \in DOMAIN errorMap
    THEN /\ stderr.message = errorMap[errMsg].message
         /\ stderr.message # errMsg
         /\ stderr.hint = errorMap[errMsg].hint
         /\ stderr.hint # Undefined
    ELSE /\ stderr.message = errMsg
         /\ stderr.hint = Undefined

\* list failed with a code outside the table while its catch block passed a
\* hint of its own.
C15_Witness ==
  /\ FailedWithCode
  /\ cmd = "list"
  /\ CallerHint # Undefined
  /\ errMsg = "not_authed"
  /\ stderr = [message |-> "not_authed", hint |-> Undefined]

\* ---------------------------------------------------------------- C16
\* What identifies an item of a response: a channel's id, a match's ts.
Keys(items) ==
  [i \in 1..Len(items) |->
     IF cmd = "search" THEN items[i].ts ELSE items[i].id]

\* a is b with some elements left out, the others in the order of b.
IsSubsequence(a, b) ==
  \E f \in [1..Len(a) -> 1..Len(b)] :
    /\ \A i, j \in 1..Len(a) : i < j => f[i] < f[j]
    /\ \A i \in 1..Len(a) : a[i] = b[f[i]]

\* The emitted channels that are, or are not, direct messages.
EmittedOfKind(im) == SelectSeq(out.items, LAMBDA ch : ch.is_im = im)

UnreadPositions ==
  {k \in 1..Len(response.items) :
     /\ infoResponses[k].status = "ok"
     /\ infoResponses[k].channel.unread_count_display # NoCount
     /\ infoResponses[k].channel.unread_count_display > 0}

\* C17: what unread and list --unread-only emit is exactly the fetched
\* channels whose getConversationInfo returned with unread_count_display
\* > 0, each once and as fetched but for unread_count_display and
\* last_read, which are those of its lookup; a channel whose count is 0 or
\* absent, or whose lookup failed, is not emitted.
C17_UnreadResultIsPositiveCounts ==
  (out.emitted /\ cmd \in {"list", "unread"} /\ FiltersUnreads) =>
    /\ Len(infoResponses) = Len(response.items)
    /\ Len(out.items) = Cardinality(UnreadPositions)
    /\ \A k \in 1..Len(response.items) :
         /\ infoResponses[k].id = response.items[k].id
         /\ IF k \in UnreadPositions
            THEN \E i \in 1..Len(out.items) :
                   out.items[i] =
                     [response.items[k] EXCEPT
                        !.unread_count_display =
                          infoResponses[k].channel.unread_count_display,
                        !.last_read = infoResponses[k].channel.last_read]
            ELSE Shown(response.items[k].id) = {}

\* list --unread-only over two channels: the first has 2 unread and is emitted with the values of
\* its lookup, the second has 0 and is left out.
C17_Witness ==
  /\ out.emitted
  /\ cmd = "list"
  /\ opts.unreadOnly
  /\ Len(response.items) = 2
  /\ UnreadPositions = {1}
  /\ infoResponses[2].status = "ok"
  /\ infoResponses[2].channel.unread_count_display = 0
  /\ Len(out.items) = 1
  /\ out.items[1].id = response.items[1].id
  /\ out.items[1].unread_count_display = 2
  /\ out.items[1].last_read = infoResponses[1].channel.last_read

\* ---------------------------------------------------------------- C18
\* C18: every command group of the contract is dispatched from the entry
\* point; an invocation of `search messages` is never turned away as an
\* unknown command before the search action has run.
C18_SearchIsDispatched ==
  Group(cmd) \in {"auth", "conversations", "search"} =>
    pc # "unknown_command"

\* ---------------------------------------------------------------- C19
\* The place of a stage in the order the specification gives.
SpecRank(stage) ==
  CASE stage = "Fetch" -> 1
    [] stage = "EnrichUnread" -> 2
    [] stage = "ResolveUsers" -> 3
    [] stage = "ResolveThreadParents" -> 4
    [] stage = "Order" -> 5
    [] stage = "Emit" -> 6

\* The place of a stage in the order the actions run them: the page is
\* reversed as soon as it is fetched.
CodeRank(stage) ==
  CASE stage = "Fetch" -> 1
    [] stage = "EnrichUnread" -> 2
    [] stage = "Order" -> 3
    [] stage = "ResolveUsers" -> 4
    [] stage = "ResolveThreadParents" -> 5
    [] stage = "Emit" -> 6

\* The stage an API call belongs to; testAuth, which no stage names, is
\* awaited once the parents are indexed.
CallStage(api) ==
  CASE api = "getConversationInfo" -> "EnrichUnread"
    [] api = "getUsersInfo" -> "ResolveUsers"
    [] api = "testAuth" -> "ResolveThreadParents"
    [] OTHER -> "Fetch"

\* A call is awaited only by the stage begun last: every earlier stage is
\* over when a stage begins.
EarlierStagesOver ==
  \A k \in 1..Len(calls) :
    calls[k].status = "pending" =>
      /\ stages # <<>>
      /\ stages[Len(stages)] = CallStage(calls[k].api)

\* The stages that apply to the invocation, in the order the action runs
\* them.
ApplicableStages ==
  CASE cmd = "read" ->
         <<"Fetch", "Order", "ResolveUsers", "ResolveThreadParents", "Emit">>
    [] cmd \in {"list", "unread"} /\ NeedsUnreads ->
         <<"Fetch", "EnrichUnread", "ResolveUsers", "Emit">>
    [] OTHER -> <<"Fetch", "ResolveUsers", "Emit">>

\* C19 as stated: the stages begin in the order Fetch, EnrichUnread,
\* ResolveUsers, ResolveThreadParents, Order, Emit, none before the earlier
\* ones are over and none twice.
C19_StagesInStatedOrder ==
  /\ \A i, j \in 1..Len(stages) :
       i < j => SpecRank(stages[i]) < SpecRank(stages[j])
  /\ EarlierStagesOver

\* C19, amended: the stages begin in the order Fetch, EnrichUnread, Order,
\* ResolveUsers, ResolveThreadParents, Emit, none before the earlier ones
\* are over and none twice, and an invocation that emits its result has run
\* every stage that applies to it.
C19_StagesInFixedOrder ==
  /\ \A i, j \in 1..Len(stages) :
       i < j => CodeRank(stages[i]) < CodeRank(stages[j])
  /\ EarlierStagesOver
  /\ out.emitted => stages = ApplicableStages

\* read has reversed the page and now awaits getUsersInfo, the parents not
\* yet indexed.
C19_Witness ==
  /\ cmd = "read"
  /\ pc = "users_wait"
  /\ stages = <<"Fetch", "Order", "ResolveUsers">>
  /\ Len(response.items) = 2
  /\ messages = Reverse(response.items)
  /\ parents = <<>>

\* ---------------------------------------------------------------- C20
\* The calls still awaited.
InFlight == {k \in 1..Len(calls) : calls[k].status = "pending"}

\* The getConversationInfo calls issued so far, in the order issued.
InfoCalls == SelectSeq(calls, LAMBDA c : c.api = "getConversationInfo")

\* The unread loop has not been left yet.
BeforeUsers == pc \in {"client", "fetch", "fetch_wait", "enrich", "enrich_wait"}

\* C20: at most one API call is in flight at any time, and a call is issued
\* only when every earlier one has returned or failed; the unread loop calls
\* getConversationInfo for the fetched channels in the order of the
\* response, once each, and has called it for every one of them when it is
\* over; without an unread option list never calls it.
C20_OneCallInFlightInApiOrder ==
  /\ Cardinality(InFlight) <= 1
  /\ \A k \in InFlight : k = Len(calls)
  /\ cmd \in {"list", "unread"} =>
       /\ Len(InfoCalls) <= Len(response.items)
       /\ \A j \in 1..Len(InfoCalls) :
            InfoCalls[j].arg = <<response.items[j].id>>
       /\ (NeedsUnreads /\ ~BeforeUsers) =>
            Len(InfoCalls) = Len(response.items)
       /\ ~NeedsUnreads => InfoCalls = <<>>

\* unread over two channels: the call for the first has failed, the call
\* for the second is the only one in flight.
C20_Witness ==
  /\ cmd = "unread"
  /\ pc = "enrich_wait"
  /\ Len(response.items) = 2
  /\ Len(InfoCalls) = 2
  /\ InfoCalls[1].status = "ratelimited"
  /\ InfoCalls[2].arg = <<response.items[2].id>>
  /\ InFlight = {Len(calls)}

\* ---------------------------------------------------------------- C21
\* The testAuth calls issued so far.
TestAuthCalls == {k \in 1..Len(calls) : calls[k].api = "testAuth"}

\* C21: testAuth is never issued twice and only by read on a standard-mode
\* workspace; a read that has got as far as printing its result has issued
\* it exactly when the workspace is standard-mode, and on a browser-mode
\* workspace its permalink url is the stored workspace_url.
C21_TestAuthIffStandard ==
  /\ Cardinality(TestAuthCalls) <= 1
  /\ TestAuthCalls # {} => (cmd = "read" /\ workspace = "standard")
  /\ (cmd = "read" /\ pc \in {"emit", "done"}) =>
       /\ TestAuthCalls # {} <=> workspace = "standard"
       /\ workspace = "browser" => workspaceUrl = StoredUrl

\* read on a browser-mode workspace has printed a page of two messages by
\* one author: getUsersInfo was its last call and its url is the stored one.
C21_Witness ==
  /\ cmd = "read"
  /\ out.emitted
  /\ workspace = "browser"
  /\ workspaceUrl = StoredUrl
  /\ Len(calls) = 2
  /\ calls[2].api = "getUsersInfo"
  /\ TestAuthCalls = {}

\* ---------------------------------------------------------------- C22
\* How many calls of these API methods were issued so far.
Issued(apis) == Cardinality({k \in 1..Len(calls) : calls[k].api \in apis})

\* The process has ended: result printed, or fatal exit.
Terminated == pc \in {"done", "failed"} /\ exitCode \in {"0", "1"}

\* The calls a command may issue, and those it has issued once it has
\* printed its result.
CallsBounded ==
  /\ cmd \in {"list", "unread"} =>
       /\ Issued({"listConversations"}) <= 1
       /\ Issued({"getConversationInfo"}) <=
            (IF NeedsUnreads THEN Len(response.items) ELSE 0)
       /\ Issued({"getUsersInfo"}) <= 1
       /\ Len(calls) = Issued({"listConversations", "getConversationInfo",
                               "getUsersInfo"})
       /\ out.emitted =>
            /\ Issued({"listConversations"}) = 1
            /\ Issued({"getConversationInfo"}) =
                 (IF NeedsUnreads THEN Len(response.items) ELSE 0)
  /\ cmd = "read" =>
       /\ Issued({"getConversationHistory", "getConversationReplies"}) <= 1
       /\ Issued({"getUsersInfo"}) <= 1
       /\ Issued({"testAuth"}) <= 1
       /\ Len(calls) = Issued({"getConversationHistory",
                               "getConversationReplies", "getUsersInfo",
                               "testAuth"})
       /\ out.emitted =>
            Issued({"getConversationHistory", "getConversationReplies"}) = 1
  /\ cmd = "search" =>
       /\ Issued({"searchMessages"}) <= 1
       /\ Issued({"getUsersInfo"}) <= 1
       /\ Len(calls) = Issued({"searchMessages", "getUsersInfo"})
       /\ out.emitted => Issued({"searchMessages"}) = 1

\* C22: when every step that can be taken is taken in the end (each awaited
\* call returns or throws), every invocation terminates, with its result
\* printed or a fatal exit, and at no time has it issued more than: for
\* list and unread one listConversations, one getConversationInfo per
\* fetched channel (none for list without an unread option) and one
\* getUsersInfo; for read one history or replies call, one getUsersInfo and
\* one testAuth; for search one searchMessages and one getUsersInfo.
C22_TerminatesWithinCallBounds == <>Terminated /\ []CallsBounded

\* unread over two channels has ended with its result printed after four
\* calls: the list, two lookups, one getUsersInfo.
C22_Witness ==
  /\ cmd = "unread"
  /\ Terminated
  /\ out.emitted
  /\ Len(response.items) = 2
  /\ Len(calls) = 4
  /\ Issued({"getConversationInfo"}) = 2
  /\ Issued({"getUsersInfo"}) = 1

\* ---------------------------------------------------------------- C23
\* The fetched messages that are no replies: unthreaded ones and roots.
FetchedTopLevel ==
  {msg \in Range(response.items) :
     msg.thread_ts = NoTs \/ msg.thread_ts = msg.ts}

\* C23: read without --thread-ts and with --exclude-replies emits exactly
\* the fetched messages that have no thread_ts or whose thread_ts is their
\* ts, each once; with --thread-ts, or without --exclude-replies, it emits
\* exactly the fetched messages; the message_count it reports is the number
\* of messages it emits.
C23_ExcludeRepliesKeepsTopLevel ==
  (out.emitted /\ cmd = "read") =>
    /\ out.message_count = Len(out.items)
    /\ IF ~opts.threadTs /\ opts.excludeReplies
       THEN /\ Range(out.items) = FetchedTopLevel
            /\ Len(out.items) = Cardinality(FetchedTopLevel)
       ELSE /\ Range(out.items) = Range(response.items)
            /\ Len(out.items) = Len(response.items)

\* read --exclude-replies --json over a page holding a root and a reply to
\* it: only the root is emitted and the count is 1.
C23_Witness ==
  /\ out.emitted
  /\ cmd = "read"
  /\ ~opts.threadTs
  /\ opts.excludeReplies
  /\ opts.json
  /\ Len(response.items) = 2
  /\ \E r, m \in Range(response.items) :
       /\ r.thread_ts = r.ts
       /\ m.thread_ts = r.ts
       /\ m.ts # r.ts
       /\ out.items = <<r>>
  /\ out.message_count = 1

====
